---- MODULE Spec2Model ----
(***************************************************************************)
(* A model of nanobot's MCP integration: McpClientManager                  *)
(* (src/nanobot/mcp/client.py) and McpToolAdapter                          *)
(* (src/nanobot/mcp/tools.py).                                             *)
(*                                                                         *)
(* Python strings are modelled as sequences of one-character strings, so   *)
(* that formatting (f-strings, "\n".join) is real concatenation.  A        *)
(* coroutine is modelled by one action per segment between two awaits:     *)
(* asyncio runs such a segment without interleaving.                       *)
(***************************************************************************)
EXTENDS Naturals, Sequences, FiniteSets, TLC

(* ------------------------------ bounds --------------------------------- *)

\* Number of servers in the configuration.
NumServers == 2
\* Number of callers that may have a start() call in flight.
NumCallers == 2
\* Sessions that may be opened successfully in one behaviour.
MaxOpens == 2
\* stop() calls in one behaviour.
MaxStops == 1
\* execute() calls that may be in flight together.
NumSlots == 2
\* Content blocks in one remote response.
MaxBlocks == 2
\* Characters in a server name or a tool name, when names are looked at.
MaxNameLen == 3
\* Adapters made, when names are looked at.
MaxAdapters == 2

Servers == 1..NumServers
Callers == 1..NumCallers
Slots == 1..NumSlots

\* The keys of config.servers, in the dict's order.
ServerNames == << <<"X">>, <<"Y">>, <<"Z">>, <<"W">> >>

(* --------------------------- Python values ----------------------------- *)

EmptyStr == << >>
EmptyDict == << >>
PyNone == [t |-> "None"]
NoAttr == [t |-> "NoAttr"]
PyStr(s) == [t |-> "str", v |-> s]
PyDict(d) == [t |-> "dict", v |-> d]

\* Python truthiness of the values above.
Truthy(x) ==
    /\ x.t \in {"str", "dict"}
    /\ x.v # << >>

\* The exception classes that occur, and `except Exception`.
ExceptionClasses == {"ValueError", "ConnectionError", "TimeoutError", "RuntimeError"}
IsException(cls) == cls \in ExceptionClasses

(* --------------------------- _build_transport -------------------------- *)

ServerConfig(enabled, type, url, command) ==
    [enabled |-> enabled, type |-> type, url |-> url, headers |-> EmptyDict,
     command |-> command, args |-> << >>, env |-> EmptyDict]

\* The shapes of a server entry the manager is run on: a valid entry, an
\* entry that lacks its required field, an entry of an unknown transport
\* and a disabled entry.
ConfigShapes ==
    { ServerConfig(TRUE, "http", <<"h">>, EmptyStr),
      ServerConfig(TRUE, "stdio", EmptyStr, EmptyStr),
      ServerConfig(TRUE, "websocket", <<"h">>, EmptyStr),
      ServerConfig(FALSE, "http", <<"h">>, EmptyStr) }

\* The characters of cfg.type.
TypeText(type) ==
    CASE type = "http" -> <<"h", "t", "t", "p">>
      [] type = "stdio" -> <<"s", "t", "d", "i", "o">>
      [] type = "websocket" -> <<"w", "e", "b", "s", "o", "c", "k", "e", "t">>
      [] type = "HTTP" -> <<"H", "T", "T", "P">>
      [] OTHER -> EmptyStr

\* client.py 106, 113, 120-123: the messages of the ValueError.
RequiresUrl(name) ==
    <<"M", "C", "P", " ", "s", "e", "r", "v", "e", "r", " ", "'">> \o name
        \o <<"'", ":", " ", "H", "T", "T", "P", " ", "t", "r", "a", "n", "s", "p", "o", "r", "t", " ", "r", "e", "q", "u", "i", "r", "e", "s", " ", "a", " ", "'", "u", "r", "l", "'">>

RequiresCommand(name) ==
    <<"M", "C", "P", " ", "s", "e", "r", "v", "e", "r", " ", "'">> \o name
        \o <<"'", ":", " ", "s", "t", "d", "i", "o", " ", "t", "r", "a", "n", "s", "p", "o", "r", "t", " ", "r", "e", "q", "u", "i", "r", "e", "s", " ", "a", " ", "'", "c", "o", "m", "m", "a", "n", "d", "'">>

UnsupportedType(name, type) ==
    <<"M", "C", "P", " ", "s", "e", "r", "v", "e", "r", " ", "'">> \o name
        \o <<"'", ":", " ", "u", "n", "s", "u", "p", "p", "o", "r", "t", "e", "d", " ", "t", "r", "a", "n", "s", "p", "o", "r", "t", " ", "t", "y", "p", "e", " ", "'">>
        \o TypeText(type)
        \o <<"'", " ", "(", "e", "x", "p", "e", "c", "t", "e", "d", " ", "'", "h", "t", "t", "p", "'", " ", "o", "r", " ", "'", "s", "t", "d", "i", "o", "'", ")">>

\* client.py 109, 116, 117: `x or {}`, `x or []`.
OrEmpty(x) == IF x # << >> THEN x ELSE << >>

\* A selector that takes every type but stdio for http.
BuildTransportLoose(name, c) ==
    IF c.type = "stdio"
    THEN IF c.command = EmptyStr
         THEN [ok |-> FALSE, exc |-> "ValueError", msg |-> RequiresCommand(name)]
         ELSE [ok |-> TRUE, kind |-> "stdio", command |-> c.command,
               args |-> OrEmpty(c.args), env |-> OrEmpty(c.env)]
    ELSE IF c.url = EmptyStr
         THEN [ok |-> FALSE, exc |-> "ValueError", msg |-> RequiresUrl(name)]
         ELSE [ok |-> TRUE, kind |-> "http", url |-> c.url, headers |-> OrEmpty(c.headers)]

\* client.py 99-123: the transport, or the ValueError raised.
BuildTransport(name, c) ==
    IF c.type = "http"
    THEN IF c.url = EmptyStr
         THEN [ok |-> FALSE, exc |-> "ValueError", msg |-> RequiresUrl(name)]
         ELSE [ok |-> TRUE, kind |-> "http", url |-> c.url, headers |-> OrEmpty(c.headers)]
    ELSE IF c.type = "stdio"
    THEN IF c.command = EmptyStr
         THEN [ok |-> FALSE, exc |-> "ValueError", msg |-> RequiresCommand(name)]
         ELSE [ok |-> TRUE, kind |-> "stdio", command |-> c.command,
               args |-> OrEmpty(c.args), env |-> OrEmpty(c.env)]
    ELSE [ok |-> FALSE, exc |-> "ValueError", msg |-> UnsupportedType(name, c.type)]

(* ----------------------------- McpToolAdapter -------------------------- *)

DefaultSchema == [type |-> "object", properties |-> EmptyDict]

\* tools.py 33: f"MCP tool {tool_name} from {server_name}"
DefaultDescription(server_name, tool_name) ==
    <<"M", "C", "P", " ", "t", "o", "o", "l", " ">> \o tool_name
        \o <<" ", "f", "r", "o", "m", " ">> \o server_name

\* A constructor that stores what it is given, without the fallbacks.
McpToolAdapterNoDefaults(server_name, tool_name, tool_description, input_schema, client) ==
    [server_name |-> server_name,
     tool_name |-> tool_name,
     description |-> tool_description,
     input_schema |-> input_schema,
     client |-> client]

\* tools.py 23-38.  tool_description is a str, input_schema a dict.
McpToolAdapter(server_name, tool_name, tool_description, input_schema, client) ==
    [server_name |-> server_name,
     tool_name |-> tool_name,
     description |-> IF tool_description # EmptyStr THEN tool_description
                     ELSE DefaultDescription(server_name, tool_name),
     input_schema |-> IF input_schema # EmptyDict THEN input_schema ELSE DefaultSchema,
     client |-> client]

\* tools.py 42-44: f"mcp__{server}__{tool}"
AdapterName(a) ==
    <<"m", "c", "p", "_", "_">> \o a.server_name \o <<"_", "_">> \o a.tool_name

\* tools.py 72: the text execute() returns for a failed call.
ErrorString(a, msg) ==
    <<"E", "r", "r", "o", "r", " ", "c", "a", "l", "l", "i", "n", "g", " ", "M", "C", "P", " ", "t", "o", "o", "l", " ", "'">> \o a.tool_name
        \o <<"'", " ", "o", "n", " ", "s", "e", "r", "v", "e", "r", " ", "'">> \o a.server_name
        \o <<"'", ":", " ">> \o msg

\* tools.py 67: the text returned for a response without blocks.
Sentinel == <<"(", "e", "m", "p", "t", "y", " ", "r", "e", "s", "u", "l", "t", ")">>

TextBlock(s) == [t |-> "text", text |-> s]
OtherBlock(s) == [t |-> "other", str |-> s]

\* A loop that keeps the text of text blocks only.
PartDropsOther(block) == IF block.t = "text" THEN block.text ELSE EmptyStr

\* tools.py 62-65: a block with a `text` attribute gives its text, any other
\* block gives str(block).
Part(block) == IF block.t = "text" THEN block.text ELSE block.str

\* sep.join(parts)
RECURSIVE Join(_, _)
Join(parts, sep) ==
    IF parts = << >> THEN EmptyStr
    ELSE IF Len(parts) = 1 THEN parts[1]
    ELSE parts[1] \o sep \o Join(Tail(parts), sep)

\* tools.py 60-67: the text execute() returns for a response.
Normalize(content) ==
    LET parts == [k \in 1..Len(content) |-> Part(content[k])] IN
    IF parts # << >> THEN Join(parts, <<"\n">>) ELSE Sentinel

\* A handler that catches connection errors only.
ExecCatchesNarrow(cls) == cls = "ConnectionError"

\* tools.py 68: `except Exception` around the forwarded call.
ExecCatches(cls) == IsException(cls)

(* --------------------- what a remote server may list ------------------- *)

SomeSchema == [type |-> "object", properties |-> [x |-> "integer"]]

ToolA == [name |-> <<"A">>, description |-> PyNone, inputSchema |-> NoAttr]
ToolB == [name |-> <<"B">>, description |-> PyStr(<<"D">>), inputSchema |-> PyDict(SomeSchema)]

\* The results list_tools() may return.
ListResults == { << >>, <<ToolA>>, <<ToolA, ToolB>> }

\* client.py 61-69: the adapters made from one server's listing.
AdaptersOf(name, remote_tools, client) ==
    [k \in 1..Len(remote_tools) |->
        LET tool == remote_tools[k] IN
        McpToolAdapter(
            name,
            tool.name,
            IF Truthy(tool.description) THEN tool.description.v ELSE EmptyStr,
            IF tool.inputSchema.t = "NoAttr" THEN EmptyDict
            ELSE IF tool.inputSchema.t = "dict" THEN tool.inputSchema.v
            ELSE EmptyDict,
            client)]

(* ------------------------------- state --------------------------------- *)

VARIABLES
    config,     \* self._config.servers: the server entries, in order
    clients,    \* self._clients: dict server name -> client, as ordered items
    contexts,   \* self._contexts: dict server name -> client, as ordered items
    tools,      \* self._tools
    started,    \* self._started
    sess,       \* the sessions opened so far (the Client objects entered)
    pc,         \* per caller: where its start() coroutine is
    cur,        \* per caller: index of the server start() is working on
    held,       \* per caller: the local `client` of start()
    ret,        \* per caller: what its last start() returned
    outcome,    \* per caller: "none", "returned" or "raised"
    pre,        \* per caller: self._tools as its last start() found it
    spc,        \* where the stop() coroutine is
    snap,       \* stop(): list(self._contexts.items())
    sidx,       \* stop(): position in snap
    builds,     \* per server: calls of _build_transport      (these three
    opens,      \* per server: awaits of client.__aenter__()   count since the
    lists,      \* per server: awaits of client.list_tools()   last stop())
    stopsDone,  \* completed stop() calls
    obs,        \* the last get_tools() result taken while a start() was
                \* suspended, and the callers suspended then
    last,       \* which of start() and stop() returned last, and the list
                \* returned by the last start() that ran the loop
    built,      \* what the last call of _build_transport made on its own gave
    pool,       \* the adapters execute() is called on
    calls,      \* per call slot: the execute() call in flight, if any
    done        \* the execute() call that ended last

mvars == <<config, clients, contexts, tools, started, sess, pc, cur, held, ret,
           outcome, pre, spc, snap, sidx, builds, opens, lists, stopsDone,
           obs, last>>

xvars == <<pool, calls, done, built>>

vars == <<mvars, xvars>>

NoObs == [taken |-> FALSE, val |-> << >>, during |-> {}]

NoLast == [op |-> "none", tools |-> << >>]

NoTransport == [t |-> "none"]

\* client.py 24-29: McpClientManager.__init__, and nothing in flight.
ManagerInit ==
    /\ clients = << >>
    /\ contexts = << >>
    /\ tools = << >>
    /\ started = FALSE
    /\ sess = << >>
    /\ pc = [t \in Callers |-> "idle"]
    /\ cur = [t \in Callers |-> 0]
    /\ held = [t \in Callers |-> 0]
    /\ ret = [t \in Callers |-> << >>]
    /\ outcome = [t \in Callers |-> "none"]
    /\ pre = [t \in Callers |-> << >>]
    /\ spc = "idle"
    /\ snap = << >>
    /\ sidx = 0
    /\ builds = [i \in Servers |-> 0]
    /\ opens = [i \in Servers |-> 0]
    /\ lists = [i \in Servers |-> 0]
    /\ stopsDone = 0
    /\ obs = NoObs
    /\ last = NoLast

NoResponse == [t |-> "none"]

IdleCall == [pc |-> "idle", adapter |-> 0, arguments |-> EmptyDict, requests |-> << >>]

NoneDone ==
    [pc |-> "none", adapter |-> 0, arguments |-> EmptyDict, requests |-> << >>,
     response |-> NoResponse, result |-> EmptyStr]

Init ==
    /\ config \in [Servers -> ConfigShapes]
    /\ ManagerInit
    /\ pool = << >>
    /\ calls = [e \in Slots |-> IdleCall]
    /\ done = NoneDone
    /\ built = NoTransport

(* ------------------------------ dict helpers --------------------------- *)

\* d[key] = value on a dict kept as its ordered items: an existing key keeps
\* its place, a new key goes last.
DictSet(d, key, value) ==
    IF \E k \in 1..Len(d) : d[k].key = key
    THEN [k \in 1..Len(d) |-> IF d[k].key = key THEN [key |-> key, value |-> value] ELSE d[k]]
    ELSE Append(d, [key |-> key, value |-> value])

DictKeys(d) == { d[k].key : k \in 1..Len(d) }
DictGet(d, key) == d[CHOOSE k \in 1..Len(d) : d[k].key = key].value

Inc(f, i) == [f EXCEPT ![i] = @ + 1]

(* ------------------------- McpClientManager.start ---------------------- *)

\* A handler that catches connection errors only.
StartCatchesNarrow(cls) == cls = "ConnectionError"

\* client.py 71: `except Exception` around one server's setup.
StartCatches(cls) == IsException(cls)

\* A loop that does not look at the enabled flag.
RECURSIVE ScanIgnoresEnabled(_, _)
ScanIgnoresEnabled(i, b) ==
    IF i > NumServers
    THEN [at |-> i, builds |-> b, exc |-> "none"]
    ELSE LET transport == BuildTransport(ServerNames[i], config[i]) IN
         IF transport.ok
         THEN [at |-> i, builds |-> Inc(b, i), exc |-> "none"]
         ELSE ScanIgnoresEnabled(i + 1, Inc(b, i))

\* client.py 40-47: the for loop from server i up to its next await, with b
\* the calls of _build_transport counted so far.  `at` is the server whose
\* session open is awaited next (NumServers + 1: the loop is over), `exc`
\* the exception that left the loop ("none": none did).
RECURSIVE Scan(_, _)
Scan(i, b) ==
    IF i > NumServers
    THEN [at |-> i, builds |-> b, exc |-> "none"]
    ELSE IF ~config[i].enabled
    THEN Scan(i + 1, b)
    ELSE LET transport == BuildTransport(ServerNames[i], config[i]) IN
         IF transport.ok
         THEN [at |-> i, builds |-> Inc(b, i), exc |-> "none"]
         ELSE IF StartCatches(transport.exc)
         THEN Scan(i + 1, Inc(b, i))
         ELSE [at |-> i, builds |-> Inc(b, i), exc |-> transport.exc]

\* Caller t's start() runs on from server i with self._tools = tl: to the
\* await of the next session open, to `self._started = True; return
\* self._tools` (client.py 74-75), or out with an exception.
Resume(t, i, tl) ==
    LET r == Scan(i, builds) IN
    /\ builds' = r.builds
    /\ tools' = tl
    /\ IF r.exc # "none"
       THEN /\ pc' = [pc EXCEPT ![t] = "idle"]
            /\ outcome' = [outcome EXCEPT ![t] = "raised"]
            /\ ret' = [ret EXCEPT ![t] = << >>]
            /\ cur' = [cur EXCEPT ![t] = 0]
            /\ UNCHANGED <<started, opens, last>>
       ELSE IF r.at > NumServers
       THEN /\ started' = TRUE
            /\ pc' = [pc EXCEPT ![t] = "idle"]
            /\ outcome' = [outcome EXCEPT ![t] = "returned"]
            /\ ret' = [ret EXCEPT ![t] = tl]
            /\ cur' = [cur EXCEPT ![t] = 0]
            /\ last' = [op |-> "start", tools |-> tl]
            /\ UNCHANGED opens
       ELSE /\ pc' = [pc EXCEPT ![t] = "open"]
            /\ cur' = [cur EXCEPT ![t] = r.at]
            /\ opens' = Inc(opens, r.at)
            /\ UNCHANGED <<started, outcome, ret, last>>

\* A start() without the `if self._started` early return.
StartCallNoGuard(t) ==
    /\ pc[t] = "idle"
    /\ pre' = [pre EXCEPT ![t] = tools]
    /\ obs' = IF obs.during \ {t} = {} THEN NoObs ELSE [obs EXCEPT !.during = @ \ {t}]
    /\ held' = [held EXCEPT ![t] = 0]
    /\ Resume(t, 1, << >>)
    /\ UNCHANGED <<config, clients, contexts, sess, spc, snap, sidx, lists, stopsDone,
                   xvars>>

\* A start() that returns early only when every enabled server is connected
\* and listed, and otherwise runs the loop again.
StartCallRetriesFailed(t) ==
    /\ pc[t] = "idle"
    /\ pre' = [pre EXCEPT ![t] = tools]
    /\ obs' = IF obs.during \ {t} = {} THEN NoObs ELSE [obs EXCEPT !.during = @ \ {t}]
    /\ held' = [held EXCEPT ![t] = 0]
    /\ IF /\ started
          /\ \A i \in Servers :
                config[i].enabled =>
                    /\ ServerNames[i] \in DictKeys(contexts)
                    /\ sess[DictGet(contexts, ServerNames[i])].listed.t = "ok"
       THEN /\ outcome' = [outcome EXCEPT ![t] = "returned"]
            /\ ret' = [ret EXCEPT ![t] = tools]
            /\ last' = [last EXCEPT !.op = "start"]
            /\ UNCHANGED <<tools, started, pc, cur, builds, opens>>
       ELSE Resume(t, 1, << >>)
    /\ UNCHANGED <<config, clients, contexts, sess, spc, snap, sidx, lists, stopsDone,
                   xvars>>

\* client.py 33-51: start() is called and runs to its first await or to its
\* return.
StartCall(t) ==
    /\ pc[t] = "idle"
    /\ pre' = [pre EXCEPT ![t] = tools]
    /\ obs' = IF obs.during \ {t} = {} THEN NoObs ELSE [obs EXCEPT !.during = @ \ {t}]
    /\ held' = [held EXCEPT ![t] = 0]
    /\ IF started
       THEN /\ outcome' = [outcome EXCEPT ![t] = "returned"]
            /\ ret' = [ret EXCEPT ![t] = tools]
            /\ last' = [last EXCEPT !.op = "start"]
            /\ UNCHANGED <<tools, started, pc, cur, builds, opens>>
       ELSE Resume(t, 1, << >>)
    /\ UNCHANGED <<config, clients, contexts, sess, spc, snap, sidx, lists, stopsDone,
                   xvars>>

\* What `await ctx` (client.py 51) and `await client.list_tools()` (56) may
\* raise.
OpenFailures == {"ConnectionError"}
ListFailures == {"RuntimeError"}

\* client.py 51-56: the session open of caller t returns: the client is
\* entered in both dicts and list_tools() is awaited.
OpenOk(t) ==
    /\ pc[t] = "open"
    /\ Len(sess) < MaxOpens
    /\ LET s == Len(sess) + 1
           name == ServerNames[cur[t]]
       IN  /\ sess' = Append(sess, [server |-> cur[t], closes |-> 0, closed |-> "no",
                                    listed |-> [t |-> "pending"]])
           /\ clients' = DictSet(clients, name, s)
           /\ contexts' = DictSet(contexts, name, s)
           /\ held' = [held EXCEPT ![t] = s]
    /\ lists' = Inc(lists, cur[t])
    /\ pc' = [pc EXCEPT ![t] = "list"]
    /\ UNCHANGED <<config, tools, started, cur, ret, outcome, pre, spc, snap, sidx,
                   builds, opens, stopsDone, obs, last, xvars>>

\* client.py 51, 71-72: the session open raises.
OpenFail(t) ==
    /\ pc[t] = "open"
    /\ \E e \in OpenFailures :
         IF StartCatches(e)
         THEN Resume(t, cur[t] + 1, tools)
         ELSE /\ pc' = [pc EXCEPT ![t] = "idle"]
              /\ outcome' = [outcome EXCEPT ![t] = "raised"]
              /\ ret' = [ret EXCEPT ![t] = << >>]
              /\ cur' = [cur EXCEPT ![t] = 0]
              /\ UNCHANGED <<tools, started, builds, opens, last>>
    /\ UNCHANGED <<config, clients, contexts, sess, held, pre, spc, snap, sidx, lists,
                   stopsDone, obs, xvars>>

\* A loop that puts a server's adapters in front of the list.
ListOkPrepends(t) ==
    /\ pc[t] = "list"
    /\ \E remote_tools \in ListResults :
         /\ sess' = [sess EXCEPT ![held[t]].listed = [t |-> "ok", v |-> remote_tools]]
         /\ Resume(t, cur[t] + 1,
                   AdaptersOf(ServerNames[cur[t]], remote_tools, held[t]) \o tools)
    /\ held' = [held EXCEPT ![t] = 0]
    /\ UNCHANGED <<config, clients, contexts, pre, spc, snap, sidx, lists, stopsDone, obs,
                   xvars>>

\* client.py 56-69: list_tools() returns; one adapter per tool is appended
\* to self._tools and the loop goes on.
ListOk(t) ==
    /\ pc[t] = "list"
    /\ \E remote_tools \in ListResults :
         /\ sess' = [sess EXCEPT ![held[t]].listed = [t |-> "ok", v |-> remote_tools]]
         /\ Resume(t, cur[t] + 1,
                   tools \o AdaptersOf(ServerNames[cur[t]], remote_tools, held[t]))
    /\ held' = [held EXCEPT ![t] = 0]
    /\ UNCHANGED <<config, clients, contexts, pre, spc, snap, sidx, lists, stopsDone, obs,
                   xvars>>

\* client.py 56, 71-72: list_tools() raises.
ListFail(t) ==
    /\ pc[t] = "list"
    /\ sess' = [sess EXCEPT ![held[t]].listed = [t |-> "raised"]]
    /\ \E e \in ListFailures :
         IF StartCatches(e)
         THEN Resume(t, cur[t] + 1, tools)
         ELSE /\ pc' = [pc EXCEPT ![t] = "idle"]
              /\ outcome' = [outcome EXCEPT ![t] = "raised"]
              /\ ret' = [ret EXCEPT ![t] = << >>]
              /\ cur' = [cur EXCEPT ![t] = 0]
              /\ UNCHANGED <<tools, started, builds, opens, last>>
    /\ held' = [held EXCEPT ![t] = 0]
    /\ UNCHANGED <<config, clients, contexts, pre, spc, snap, sidx, lists, stopsDone, obs,
                   xvars>>

(* ------------------------- McpClientManager.stop ----------------------- *)

\* A close loop without the try/except.
StopCatchesNothing(cls) == FALSE

\* client.py 82: `except Exception` around one close.
StopCatches(cls) == IsException(cls)

\* What `await client.__aexit__(None, None, None)` (client.py 81) may raise.
CloseFailures == {"RuntimeError"}

\* A stop() that forgets self._tools.clear().
StopFinishKeepsTools ==
    /\ clients' = << >>
    /\ contexts' = << >>
    /\ tools' = tools
    /\ started' = FALSE
    /\ spc' = "idle"
    /\ snap' = << >>
    /\ sidx' = 0
    /\ stopsDone' = stopsDone + 1
    /\ ret' = [t \in Callers |-> IF pc[t] = "idle" THEN << >> ELSE ret[t]]
    /\ outcome' = [t \in Callers |-> IF pc[t] = "idle" THEN "none" ELSE outcome[t]]
    /\ pre' = [t \in Callers |-> IF pc[t] = "idle" THEN << >> ELSE pre[t]]
    /\ builds' = [i \in Servers |-> 0]
    /\ opens' = [i \in Servers |-> 0]
    /\ lists' = [i \in Servers |-> 0]
    /\ obs' = IF \A t \in Callers : pc[t] = "idle" THEN NoObs ELSE obs
    /\ last' = [op |-> "stop", tools |-> << >>]

\* A stop() that forgets self._started = False.
StopFinishKeepsStarted ==
    /\ clients' = << >>
    /\ contexts' = << >>
    /\ tools' = << >>
    /\ started' = started
    /\ spc' = "idle"
    /\ snap' = << >>
    /\ sidx' = 0
    /\ stopsDone' = stopsDone + 1
    /\ ret' = [t \in Callers |-> IF pc[t] = "idle" THEN << >> ELSE ret[t]]
    /\ outcome' = [t \in Callers |-> IF pc[t] = "idle" THEN "none" ELSE outcome[t]]
    /\ pre' = [t \in Callers |-> IF pc[t] = "idle" THEN << >> ELSE pre[t]]
    /\ builds' = [i \in Servers |-> 0]
    /\ opens' = [i \in Servers |-> 0]
    /\ lists' = [i \in Servers |-> 0]
    /\ obs' = IF \A t \in Callers : pc[t] = "idle" THEN NoObs ELSE obs
    /\ last' = [op |-> "stop", tools |-> << >>]

\* client.py 84-87, and stop() returns.  What the idle callers hold of the
\* lifecycle that ends here is forgotten, and so is the last get_tools()
\* when no start() is suspended.
StopFinish ==
    /\ clients' = << >>
    /\ contexts' = << >>
    /\ tools' = << >>
    /\ started' = FALSE
    /\ spc' = "idle"
    /\ snap' = << >>
    /\ sidx' = 0
    /\ stopsDone' = stopsDone + 1
    /\ ret' = [t \in Callers |-> IF pc[t] = "idle" THEN << >> ELSE ret[t]]
    /\ outcome' = [t \in Callers |-> IF pc[t] = "idle" THEN "none" ELSE outcome[t]]
    /\ pre' = [t \in Callers |-> IF pc[t] = "idle" THEN << >> ELSE pre[t]]
    /\ builds' = [i \in Servers |-> 0]
    /\ opens' = [i \in Servers |-> 0]
    /\ lists' = [i \in Servers |-> 0]
    /\ obs' = IF \A t \in Callers : pc[t] = "idle" THEN NoObs ELSE obs
    /\ last' = [op |-> "stop", tools |-> << >>]

\* client.py 79-81: stop() is called: it copies the items of self._contexts
\* and awaits the first close, or finishes at once when there is none.
StopCall ==
    /\ spc = "idle"
    /\ stopsDone < MaxStops
    /\ IF contexts = << >>
       THEN /\ StopFinish
            /\ UNCHANGED sess
       ELSE /\ spc' = "closing"
            /\ snap' = contexts
            /\ sidx' = 1
            /\ sess' = [sess EXCEPT ![contexts[1].value].closes = @ + 1]
            /\ UNCHANGED <<clients, contexts, tools, started, stopsDone, ret, outcome, pre,
                           builds, opens, lists, obs, last>>
    /\ UNCHANGED <<config, pc, cur, held, xvars>>

\* The sessions as they are remembered once stop() has returned: what a
\* session that stop() worked on had listed is no longer of interest.
Past(ss) ==
    [s \in 1..Len(ss) |->
        IF ss[s].closes >= 1 /\ ss[s].listed.t = "ok"
        THEN [ss[s] EXCEPT !.listed = [t |-> "past"]]
        ELSE ss[s]]

\* client.py 79-87: the awaited close returns or raises; the loop goes on to
\* the next item of the copy, or stop() finishes.
CloseDone(result) ==
    /\ spc = "closing"
    /\ IF result = "ok" \/ StopCatches(result)
       THEN IF sidx < Len(snap)
            THEN /\ sidx' = sidx + 1
                 /\ sess' = [sess EXCEPT ![snap[sidx].value].closed = result,
                                         ![snap[sidx + 1].value].closes = @ + 1]
                 /\ UNCHANGED <<clients, contexts, tools, started, spc, snap, stopsDone,
                                ret, outcome, pre, builds, opens, lists, obs, last>>
            ELSE /\ sess' = Past([sess EXCEPT ![snap[sidx].value].closed = result])
                 /\ StopFinish
       ELSE /\ sess' = [sess EXCEPT ![snap[sidx].value].closed = result]
            /\ spc' = "raised"
            /\ UNCHANGED <<clients, contexts, tools, started, snap, sidx, stopsDone,
                           ret, outcome, pre, builds, opens, lists, obs, last>>
    /\ UNCHANGED <<config, pc, cur, held, xvars>>

CloseOk == CloseDone("ok")

CloseFail == \E e \in CloseFailures : CloseDone(e)

(* ------------------------ McpClientManager.get_tools ------------------- *)

\* client.py 89-91: list(self._tools)
get_tools == tools

\* A get_tools() call made while some start() is suspended.
GetTools ==
    /\ \E t \in Callers : pc[t] # "idle"
    /\ obs' = [taken |-> TRUE, val |-> get_tools,
               during |-> {t \in Callers : pc[t] # "idle"}]
    /\ UNCHANGED <<config, clients, contexts, tools, started, sess, pc, cur, held, ret,
                   outcome, pre, spc, snap, sidx, builds, opens, lists, stopsDone, last,
                   xvars>>

(* ---------------------------- specifications --------------------------- *)

\* No start() and no stop() is in progress.
Quiet == spc = "idle" /\ \A t \in Callers : pc[t] = "idle"

\* The manager under any interleaving of two start() callers, stop() and
\* get_tools().
Next ==
    \/ \E t \in Callers : StartCall(t)
    \/ \E t \in Callers : OpenOk(t)
    \/ \E t \in Callers : OpenFail(t)
    \/ \E t \in Callers : ListOk(t)
    \/ \E t \in Callers : ListFail(t)
    \/ StopCall
    \/ CloseOk
    \/ CloseFail

Spec == Init /\ [][Next]_vars

\* The manager when its caller awaits each start() and stop() before the
\* next one; get_tools() may be called at any await.
NextSeq ==
    \/ Quiet /\ \E t \in Callers : StartCall(t)
    \/ \E t \in Callers : OpenOk(t)
    \/ \E t \in Callers : OpenFail(t)
    \/ \E t \in Callers : ListOk(t)
    \/ \E t \in Callers : ListFail(t)
    \/ Quiet /\ StopCall
    \/ CloseOk
    \/ CloseFail
    \/ GetTools

SpecSeq == Init /\ [][NextSeq]_vars

\* The manager when start() calls overlap each other but never a stop():
\* stop() is called when no start() is in progress and is awaited before the
\* next start().
NextOverlap ==
    \/ spc = "idle" /\ \E t \in Callers : StartCall(t)
    \/ \E t \in Callers : OpenOk(t)
    \/ \E t \in Callers : OpenFail(t)
    \/ \E t \in Callers : ListOk(t)
    \/ \E t \in Callers : ListFail(t)
    \/ (\A t \in Callers : pc[t] = "idle") /\ StopCall
    \/ CloseOk
    \/ CloseFail

SpecOverlap == Init /\ [][NextOverlap]_vars

\* The manager when start() calls never overlap each other but stop() may
\* be called while a start() is suspended, and a start() while a stop() is.
NextStopDuring ==
    \/ (\A t \in Callers : pc[t] = "idle") /\ \E t \in Callers : StartCall(t)
    \/ \E t \in Callers : OpenOk(t)
    \/ \E t \in Callers : OpenFail(t)
    \/ \E t \in Callers : ListOk(t)
    \/ \E t \in Callers : ListFail(t)
    \/ StopCall
    \/ CloseOk
    \/ CloseFail

SpecStopDuring == Init /\ [][NextStopDuring]_vars

(* -------------------------- McpToolAdapter.execute --------------------- *)

\* The adapters execute() is called on: two adapters of one session, or of
\* two sessions of two servers.
Pools ==
    { << McpToolAdapter(ServerNames[1], <<"A">>, EmptyStr, EmptyDict, 1),
         McpToolAdapter(ServerNames[c2], n2, <<"D">>, SomeSchema, c2) >> :
        n2 \in {<<"A">>, <<"B">>}, c2 \in {1, 2} }

\* The keyword arguments of a call.
Arguments == { EmptyDict, [name |-> <<"N">>] }

Blocks == { TextBlock(EmptyStr), TextBlock(<<"H">>), OtherBlock(<<"O">>) }

\* result.content of a call that returns.
Contents == UNION { [1..n -> Blocks] : n \in 0..MaxBlocks }

\* What `await self._client.call_tool(...)` (tools.py 57) may raise: a dropped
\* connection, an error of the remote tool, a timeout, a cancellation.
CallFailures ==
    { [cls |-> "ConnectionError", msg |-> <<"!">>],
      [cls |-> "RuntimeError", msg |-> <<"?">>],
      [cls |-> "TimeoutError", msg |-> EmptyStr],
      [cls |-> "CancelledError", msg |-> EmptyStr] }

InitExec ==
    /\ config = [i \in Servers |-> ServerConfig(TRUE, "http", <<"h">>, EmptyStr)]
    /\ ManagerInit
    /\ pool \in Pools
    /\ calls = [e \in Slots |-> IdleCall]
    /\ done = NoneDone
    /\ built = NoTransport

\* An execute() that forwards the adapter's public name.
ExecCallPublicName(e) ==
    /\ calls[e].pc = "idle"
    /\ \E k \in 1..Len(pool), kwargs \in Arguments :
         calls' = [calls EXCEPT ![e] =
            [pc |-> "awaiting", adapter |-> k, arguments |-> kwargs,
             requests |-> << [client |-> pool[k].client, name |-> AdapterName(pool[k]),
                              arguments |-> kwargs] >>]]
    /\ UNCHANGED <<mvars, pool, done, built>>

\* tools.py 54-57: execute(**kwargs) is called on pool[k] and awaits
\* call_tool(self._tool_name, kwargs) on the adapter's client.
ExecCall(e) ==
    /\ calls[e].pc = "idle"
    /\ \E k \in 1..Len(pool), kwargs \in Arguments :
         calls' = [calls EXCEPT ![e] =
            [pc |-> "awaiting", adapter |-> k, arguments |-> kwargs,
             requests |-> << [client |-> pool[k].client, name |-> pool[k].tool_name,
                              arguments |-> kwargs] >>]]
    /\ UNCHANGED <<mvars, pool, done, built>>

\* How the execute() call of slot e ends.
Ended(e, how, response, result) ==
    [pc |-> how, adapter |-> calls[e].adapter,
     arguments |-> calls[e].arguments, requests |-> calls[e].requests,
     response |-> response, result |-> result]

\* tools.py 57-67: the call returns and its content is joined.
ExecReturn(e) ==
    /\ calls[e].pc = "awaiting"
    /\ \E content \in Contents :
         done' = Ended(e, "returned", [t |-> "content", content |-> content],
                       Normalize(content))
    /\ calls' = [calls EXCEPT ![e] = IdleCall]
    /\ UNCHANGED <<mvars, pool, built>>

\* An execute() whose error text is made from what another call in flight
\* left on the adapter object.
ExecRaiseSharedState(e) ==
    /\ calls[e].pc = "awaiting"
    /\ \E f \in CallFailures :
         LET others == {x \in Slots : x # e /\ calls[x].pc = "awaiting"}
             k == IF others = {} THEN calls[e].adapter
                  ELSE calls[CHOOSE x \in others : TRUE].adapter
         IN  done' = IF ExecCatches(f.cls)
                     THEN Ended(e, "returned", [t |-> "raise", cls |-> f.cls, msg |-> f.msg],
                                ErrorString(pool[k], f.msg))
                     ELSE Ended(e, "raised", [t |-> "raise", cls |-> f.cls, msg |-> f.msg],
                                EmptyStr)
    /\ calls' = [calls EXCEPT ![e] = IdleCall]
    /\ UNCHANGED <<mvars, pool, built>>

\* tools.py 57, 68-72: the call raises; an Exception becomes the error text,
\* anything else leaves execute().
ExecRaise(e) ==
    /\ calls[e].pc = "awaiting"
    /\ \E f \in CallFailures :
         done' = IF ExecCatches(f.cls)
                 THEN Ended(e, "returned", [t |-> "raise", cls |-> f.cls, msg |-> f.msg],
                            ErrorString(pool[calls[e].adapter], f.msg))
                 ELSE Ended(e, "raised", [t |-> "raise", cls |-> f.cls, msg |-> f.msg],
                            EmptyStr)
    /\ calls' = [calls EXCEPT ![e] = IdleCall]
    /\ UNCHANGED <<mvars, pool, built>>

\* execute() calls on the adapters of the pool, in any interleaving.
NextExec ==
    \/ \E e \in Slots : ExecCall(e)
    \/ \E e \in Slots : ExecReturn(e)
    \/ \E e \in Slots : ExecRaise(e)

SpecExec == InitExec /\ [][NextExec]_vars

(* ------------------- McpClientManager._build_transport ----------------- *)

\* The entries _build_transport is called on: every type, with the fields of
\* both transports empty or set.
SelectShapes ==
    [enabled : BOOLEAN,
     type : {"http", "stdio", "websocket", "HTTP", ""},
     url : {EmptyStr, <<"h">>},
     headers : {EmptyDict, <<[key |-> <<"K">>, value |-> <<"V">>]>>},
     command : {EmptyStr, <<"p">>},
     args : {<< >>, << <<"r">> >>},
     env : {EmptyDict, <<[key |-> <<"E">>, value |-> <<"V">>]>>}]

InitSelect ==
    /\ config \in {[i \in Servers |-> c] : c \in SelectShapes}
    /\ ManagerInit
    /\ pool = << >>
    /\ calls = [e \in Slots |-> IdleCall]
    /\ done = NoneDone
    /\ built = NoTransport

\* client.py 99-123: the static method is called on the entry of server i.
BuildTransportCall(i) ==
    /\ built' = [t |-> "called", name |-> ServerNames[i], cfg |-> config[i],
                 result |-> BuildTransport(ServerNames[i], config[i])]
    /\ UNCHANGED <<mvars, pool, calls, done>>

\* _build_transport called on any entry.
SpecSelect == InitSelect /\ [][\E i \in Servers : BuildTransportCall(i)]_vars

(* ------------------- adapters made from a listing ---------------------- *)

\* The tool objects a server may list: tool.description is None, "" or a
\* text; tool.inputSchema is missing, None, {} or a schema.
Descriptors ==
    [name : {<<"A">>, <<"B">>},
     description : {PyNone, PyStr(EmptyStr), PyStr(<<"D">>)},
     inputSchema : {NoAttr, PyNone, PyDict(EmptyDict), PyDict(SomeSchema)}]

InitSurface ==
    /\ config = [i \in Servers |-> ServerConfig(TRUE, "http", <<"h">>, EmptyStr)]
    /\ ManagerInit
    /\ pool = << >>
    /\ calls = [e \in Slots |-> IdleCall]
    /\ done = NoneDone
    /\ built = NoTransport

\* client.py 52-53, 56-69: the next server in order is connected, lists one
\* tool, and the adapter made from it is appended to self._tools.
Discover ==
    /\ Len(sess) < NumServers
    /\ LET i == Len(sess) + 1
           s == Len(sess) + 1
           name == ServerNames[i]
       IN  \E tool \in Descriptors :
             /\ sess' = Append(sess, [server |-> i, closes |-> 0, closed |-> "no",
                                      listed |-> [t |-> "ok", v |-> <<tool>>]])
             /\ clients' = DictSet(clients, name, s)
             /\ contexts' = DictSet(contexts, name, s)
             /\ tools' = tools \o AdaptersOf(name, <<tool>>, s)
    /\ UNCHANGED <<config, started, pc, cur, held, ret, outcome, pre, spc, snap, sidx,
                   builds, opens, lists, stopsDone, obs, last, xvars>>

\* Adapters made from any tool objects, one per server.
SpecSurface == InitSurface /\ [][Discover]_vars

(* ---------------------------- McpToolAdapter.name --------------------- *)

\* The characters of the names looked at: a letter and the underscore.
NameChars == {"a", "_"}

\* Server names (keys of config.servers) and tool names (tool.name of a
\* listing): any non-empty text.
Names == UNION { [1..n -> NameChars] : n \in 1..MaxNameLen }

InitNames ==
    /\ config = [i \in Servers |-> ServerConfig(TRUE, "http", <<"h">>, EmptyStr)]
    /\ ManagerInit
    /\ pool = << >>
    /\ calls = [e \in Slots |-> IdleCall]
    /\ done = NoneDone
    /\ built = NoTransport

\* client.py 62-68, tools.py 23-38: an adapter is made for a tool of a
\* server, bound to a client of its own.
NewAdapter ==
    /\ Len(pool) < MaxAdapters
    /\ \E name \in Names, tool_name \in Names :
         pool' = Append(pool, McpToolAdapter(name, tool_name, EmptyStr, EmptyDict,
                                             Len(pool) + 1))
    /\ UNCHANGED <<mvars, calls, done, built>>

\* Adapters made for any server names and tool names.
SpecNames == InitNames /\ [][NewAdapter]_vars

(* ================================ claims =============================== *)

\* Server i is enabled and its entry yields a transport.
Valid(i) == config[i].enabled /\ BuildTransport(ServerNames[i], config[i]).ok

\* Server i's session was opened and its listing returned.
Succeeded(i) ==
    /\ ServerNames[i] \in DictKeys(contexts)
    /\ sess[DictGet(contexts, ServerNames[i])].listed.t = "ok"

\* The adapters server i is due: one per listed tool, bound to its session.
Contribution(i) ==
    IF Succeeded(i)
    THEN LET c == DictGet(contexts, ServerNames[i]) IN
         AdaptersOf(ServerNames[i], sess[c].listed.v, c)
    ELSE << >>

RECURSIVE ContributionsFrom(_)
ContributionsFrom(i) ==
    IF i > NumServers THEN << >> ELSE Contribution(i) \o ContributionsFrom(i + 1)

Returned(t) == pc[t] = "idle" /\ outcome[t] = "returned"

AdaptersFor(list, i) == { k \in 1..Len(list) : list[k].server_name = ServerNames[i] }

\* C1: whichever enabled servers fail (invalid entry, session open, listing),
\* a start() awaited on its own never raises; once it has returned, started
\* is true, every server with a valid entry was tried once, and the list
\* returned holds exactly the adapters of the servers that opened and
\* listed, one per listed tool, and none of any server that failed.
C1_FailureIsolation ==
    \A t \in Callers :
        /\ outcome[t] # "raised"
        /\ Returned(t) =>
              /\ started
              /\ \A i \in Servers : Valid(i) => opens[i] = 1
              /\ ret[t] = ContributionsFrom(1)
              /\ get_tools = ret[t]
              /\ \A i \in Servers :
                    /\ ~Succeeded(i) => AdaptersFor(ret[t], i) = {}
                    /\ Succeeded(i) =>
                          Cardinality(AdaptersFor(ret[t], i))
                              = Len(sess[DictGet(contexts, ServerNames[i])].listed.v)

\* C1 witness: a start() has returned; an enabled server failed and a later
\* server contributed adapters.
C1_Witness ==
    \E t \in Callers, i \in Servers, j \in Servers :
        /\ Returned(t)
        /\ i < j
        /\ config[i].enabled /\ ~Succeeded(i)
        /\ Succeeded(j) /\ AdaptersFor(ret[t], j) # {}

\* C2: start() on a started manager returns the list the first call returned
\* and opens and lists nothing: over successive start() calls each server
\* with a valid entry is opened exactly once, every other server never.
C2_StartIdempotent ==
    /\ \A t1 \in Callers, t2 \in Callers :
          Returned(t1) /\ Returned(t2) => ret[t1] = ret[t2]
    /\ \A i \in Servers : opens[i] <= 1 /\ lists[i] <= 1
    /\ (\E t \in Callers : Returned(t)) =>
          \A i \in Servers : opens[i] = IF Valid(i) THEN 1 ELSE 0

\* C2 witness: two start() calls have returned one after the other, with a
\* server opened and adapters in the list.
C2_Witness ==
    /\ \A t \in Callers : Returned(t)
    /\ \E i \in Servers : opens[i] = 1
    /\ ret[1] # << >>

\* A session nobody has tried to close.
Live(s) == sess[s].closes = 0

\* C3: overlapping start() calls never hold two open sessions of one server,
\* and no tool of a server is in the adapter list twice.
C3_NoDuplicateOpen ==
    /\ \A s1 \in 1..Len(sess), s2 \in 1..Len(sess) :
          (Live(s1) /\ Live(s2) /\ sess[s1].server = sess[s2].server) => s1 = s2
    /\ \A k1 \in 1..Len(tools), k2 \in 1..Len(tools) :
          (/\ tools[k1].server_name = tools[k2].server_name
           /\ tools[k1].tool_name = tools[k2].tool_name) => k1 = k2

\* C4: a get_tools() made while a start() was suspended returned the list as
\* it was before that start() or the list that start() then returned.
C4_AtomicExposure ==
    \A t \in Callers :
        (Returned(t) /\ obs.taken /\ t \in obs.during) =>
            (obs.val = pre[t] \/ obs.val = ret[t])

\* C5: whenever stop() returns, started is false and get_tools(), the client
\* map and the context map are empty; stop() never raises.
C5_StopResets ==
    /\ [](spc # "raised")
    /\ [][(stopsDone' = stopsDone + 1) =>
            (/\ spc' = "idle"
             /\ started' = FALSE
             /\ get_tools' = << >>
             /\ clients' = << >>
             /\ contexts' = << >>)]_vars

\* C5 witness: stop() has returned after a start() in which one server's
\* listing failed, and a close failed.
C5_Witness ==
    /\ stopsDone >= 1
    /\ Quiet
    /\ \E s \in 1..Len(sess) : sess[s].listed.t = "raised"
    /\ \E s \in 1..Len(sess) : sess[s].closed \in CloseFailures

\* C6: stop() works on the sessions in the context map when it is called;
\* while it runs, each of them up to its position has had one close attempt
\* and the others none; when it returns each has had exactly one; a failed
\* close does not make stop() raise.
C6_StopClosesAll ==
    /\ [](spc # "raised")
    /\ [](spc = "closing" =>
            \A k \in 1..Len(snap) :
                sess[snap[k].value].closes = IF k <= sidx THEN 1 ELSE 0)
    /\ [][/\ (spc = "idle" /\ spc' = "closing") => snap' = contexts
          /\ (spc = "closing" /\ spc' = "idle") =>
                \A k \in 1..Len(snap) : sess'[snap[k].value].closes = 1]_vars

\* C6 witness: stop() is at the last of two sessions and the close of the
\* first one failed.
C6_Witness ==
    /\ spc = "closing"
    /\ Len(snap) = 2
    /\ sidx = 2
    /\ sess[snap[1].value].closed \in CloseFailures

\* C7: a disabled server is never touched: no transport built, no session
\* opened, no listing asked, no entry in either map, no adapter; start() on
\* a configuration of disabled servers only returns the empty list and
\* leaves started true.
C7_DisabledSkipped ==
    /\ \A i \in Servers : ~config[i].enabled =>
          /\ builds[i] = 0 /\ opens[i] = 0 /\ lists[i] = 0
          /\ ServerNames[i] \notin DictKeys(clients) \cup DictKeys(contexts)
          /\ \A s \in 1..Len(sess) : sess[s].server # i
          /\ AdaptersFor(tools, i) = {}
          /\ \A t \in Callers : AdaptersFor(ret[t], i) = {}
    /\ (\A i \in Servers : ~config[i].enabled) =>
          \A t \in Callers :
              /\ pc[t] = "idle"
              /\ outcome[t] # "raised"
              /\ outcome[t] = "returned" => (ret[t] = << >> /\ started)

\* C7 witness: start() has returned on a configuration of disabled servers
\* only.
C7_Witness ==
    /\ \A i \in Servers : ~config[i].enabled
    /\ \E t \in Callers : Returned(t)
    /\ started

Contains(seq, sub) ==
    \E i \in 0..(Len(seq) - Len(sub)) : SubSeq(seq, i + 1, i + Len(sub)) = sub

StartsWith(seq, head) == Len(seq) >= Len(head) /\ SubSeq(seq, 1, Len(head)) = head

ErrorHead == <<"E", "r", "r", "o", "r", " ", "c", "a", "l", "l", "i", "n", "g">>

\* The failures of a remote call C8 names.
RemoteFailures == {"ConnectionError", "RuntimeError", "TimeoutError"}

Failed(classes) == done.response.t = "raise" /\ done.response.cls \in classes

\* C8: when the forwarded call fails (dropped connection, remote error,
\* timeout) execute() returns, and returns an error text that holds the
\* tool's name, the server's name and the failure's message.
C8_ExecuteReturnsError ==
    Failed(RemoteFailures) =>
        /\ done.pc = "returned"
        /\ StartsWith(done.result, ErrorHead)
        /\ Contains(done.result, pool[done.adapter].tool_name)
        /\ Contains(done.result, pool[done.adapter].server_name)
        /\ Contains(done.result, done.response.msg)

\* C8 witness: a call failed on a dropped connection and execute() returned.
C8_Witness ==
    /\ Failed({"ConnectionError"})
    /\ done.pc = "returned"

\* C9: when the forwarded call is cancelled or times out, execute() returns
\* its error text; the cancellation does not leave execute().
C9_CancellationSurfaced ==
    Failed({"CancelledError", "TimeoutError"}) =>
        /\ done.pc = "returned"
        /\ StartsWith(done.result, ErrorHead)

\* Every block of the content gives the empty text (so also: no block).
AllEmpty(content) == \A k \in 1..Len(content) : Part(content[k]) = EmptyStr

\* C10: execute() returns "(empty result)" for a response without blocks and
\* for a response whose blocks are all empty.
C10_EmptySentinel ==
    (/\ done.pc = "returned"
     /\ done.response.t = "content"
     /\ AllEmpty(done.response.content)) =>
        done.result = Sentinel

\* The pieces of s between its newlines.
RECURSIVE Lines(_)
Lines(s) ==
    IF \E i \in 1..Len(s) : s[i] = "\n"
    THEN LET i == CHOOSE i \in 1..Len(s) :
                    s[i] = "\n" /\ \A j \in 1..(i - 1) : s[j] # "\n"
         IN  <<SubSeq(s, 1, i - 1)>> \o Lines(SubSeq(s, i + 1, Len(s)))
    ELSE <<s>>

\* What one block of a response is due to give: its text, or its str().
BlockString(block) == IF block.t = "text" THEN block.text ELSE block.str

\* C11: for a call that returned one or more blocks, execute() returns the
\* blocks' strings (the text of a text block, the str() of any other) in the
\* order of the response with one newline between neighbours: cut at the
\* newlines, the result gives back exactly these strings, none dropped,
\* doubled or moved.
C11_JoinedInOrder ==
    (/\ done.pc = "returned"
     /\ done.response.t = "content"
     /\ done.response.content # << >>) =>
        LET content == done.response.content IN
        /\ Lines(done.result) = [k \in 1..Len(content) |-> BlockString(content[k])]
        /\ Len(Lines(done.result)) = Len(content)

\* C11 witness: a response of a text block and a block of another kind, in
\* this order, was joined.
C11_Witness ==
    /\ done.pc = "returned"
    /\ done.response.t = "content"
    /\ done.response.content = <<TextBlock(<<"H">>), OtherBlock(<<"O">>)>>
    /\ done.result = <<"H", "\n", "O">>

\* The requests of call c: one, on the client of its adapter, of the
\* adapter's own tool name and not its public name, with c's arguments.
ForwardedOnce(c) ==
    /\ Len(c.requests) = 1
    /\ c.requests[1].client = pool[c.adapter].client
    /\ c.requests[1].name = pool[c.adapter].tool_name
    /\ c.requests[1].name # AdapterName(pool[c.adapter])
    /\ c.requests[1].arguments = c.arguments

\* C12: every execute() call, in flight or ended, has made exactly one
\* call_tool request, on the client its adapter was built with, naming the
\* adapter's bare tool name and passing the caller's arguments as they came.
C12_ForwardsOnce ==
    /\ \A e \in Slots : calls[e].pc = "awaiting" => ForwardedOnce(calls[e])
    /\ done.pc # "none" => ForwardedOnce(done)

\* C12 witness: a call with arguments on the adapter of the second client has
\* returned while another call is in flight.
C12_Witness ==
    /\ done.pc = "returned"
    /\ done.arguments # EmptyDict
    /\ pool[done.adapter].client = 2
    /\ \E e \in Slots : calls[e].pc = "awaiting"

McpPrefix == <<"m", "c", "p", "_", "_">>

\* n is "mcp__" + server + "__" + tool, read off position by position.
NameOf(n, server, tool) ==
    /\ Len(n) = 5 + Len(server) + 2 + Len(tool)
    /\ SubSeq(n, 1, 5) = McpPrefix
    /\ SubSeq(n, 6, 5 + Len(server)) = server
    /\ SubSeq(n, 6 + Len(server), 7 + Len(server)) = <<"_", "_">>
    /\ SubSeq(n, 8 + Len(server), Len(n)) = tool

\* C13: an adapter's public name is "mcp__" + server + "__" + tool, and two
\* adapters of different servers never have the same public name, whatever
\* the server names and tool names are.
C13_UniqueNames ==
    /\ \A k \in 1..Len(pool) :
          NameOf(AdapterName(pool[k]), pool[k].server_name, pool[k].tool_name)
    /\ \A k1 \in 1..Len(pool), k2 \in 1..Len(pool) :
          pool[k1].server_name # pool[k2].server_name =>
              AdapterName(pool[k1]) # AdapterName(pool[k2])

\* C14: whenever no start() and no stop() is in progress, get_tools() gives
\* the empty list if no start() has returned yet or stop() was the last of
\* the two to return, and otherwise the list returned by the last start()
\* that ran the loop over the servers.
C14_GetToolsAtRest ==
    Quiet =>
        /\ last.op \in {"none", "stop"} => get_tools = << >>
        /\ last.op = "start" => get_tools = last.tools

\* C14 witness: start(), stop() and start() again have returned, and the
\* second start() found adapters.
C14_Witness ==
    /\ Quiet
    /\ stopsDone >= 1
    /\ last.op = "start"
    /\ get_tools # << >>

\* Server i is enabled and _build_transport raises on its entry.
Invalid(i) == config[i].enabled /\ ~BuildTransport(ServerNames[i], config[i]).ok

\* C15: a start() that has ended has raised exactly when an enabled server's
\* entry is invalid (empty url, empty command, unknown type): the
\* ValueError of _build_transport leaves start(), and nothing else does.
C15_RaisesOnBadConfig ==
    \A t \in Callers :
        (pc[t] = "idle" /\ outcome[t] # "none") =>
            (outcome[t] = "raised" <=> \E i \in Servers : Invalid(i))

\* r is a ValueError whose message holds the word.
ConfigError(r, word) ==
    /\ ~r.ok
    /\ r.exc = "ValueError"
    /\ Contains(r.msg, word)

\* Entry c with the fields its transport type does not use emptied.
WithoutUnused(c) ==
    IF c.type = "http"
    THEN [c EXCEPT !.command = EmptyStr, !.args = << >>, !.env = EmptyDict]
    ELSE IF c.type = "stdio"
    THEN [c EXCEPT !.url = EmptyStr, !.headers = EmptyDict]
    ELSE [c EXCEPT !.url = EmptyStr, !.headers = EmptyDict,
                   !.command = EmptyStr, !.args = << >>, !.env = EmptyDict]

\* C16: _build_transport decides on type, url and command alone and changes
\* nothing: http with an empty url raises a ValueError naming "url", stdio
\* with an empty command one naming "command", any other type one naming
\* "unsupported"; http with a url gives a transport of url and headers only,
\* stdio with a command one of command, args and env only; the fields of the
\* transport not chosen make no difference to the outcome.
C16_TransportSelector ==
    /\ [](built.t = "called" =>
            LET c == built.cfg
                r == built.result
            IN  /\ IF c.type = "http" /\ c.url = EmptyStr
                   THEN ConfigError(r, <<"u", "r", "l">>)
                   ELSE IF c.type = "stdio" /\ c.command = EmptyStr
                   THEN ConfigError(r, <<"c", "o", "m", "m", "a", "n", "d">>)
                   ELSE IF c.type \notin {"http", "stdio"}
                   THEN ConfigError(r, <<"u", "n", "s", "u", "p", "p", "o", "r", "t", "e", "d">>)
                   ELSE IF c.type = "http"
                   THEN r = [ok |-> TRUE, kind |-> "http", url |-> c.url,
                             headers |-> c.headers]
                   ELSE r = [ok |-> TRUE, kind |-> "stdio", command |-> c.command,
                             args |-> c.args, env |-> c.env]
                /\ r = BuildTransport(built.name, WithoutUnused(c)))
    /\ [][built' # built => UNCHANGED mvars]_vars

\* C16 witness: a stdio entry with a command, and with url and headers set
\* too, gave a transport.
C16_Witness ==
    /\ built.t = "called"
    /\ built.cfg.type = "stdio"
    /\ built.cfg.url # EmptyStr /\ built.cfg.headers # EmptyDict
    /\ built.result.ok
    /\ built.result.command = <<"p">>

\* C17: no two execute() calls have a call_tool request in flight on the
\* same client at the same time, whether they were made on one adapter or
\* on two adapters of that client.
C17_SerializedPerSession ==
    \A e1 \in Slots, e2 \in Slots :
        (/\ e1 # e2
         /\ calls[e1].pc = "awaiting"
         /\ calls[e2].pc = "awaiting") =>
            calls[e1].requests[1].client # calls[e2].requests[1].client

\* C18: once stop() has returned and nothing is in progress, every session
\* that was opened has had its close attempted: none is left open, also
\* after a failed listing and after overlapping or repeated start() calls.
C18_NoSessionLeak ==
    (Quiet /\ last.op = "stop") =>
        \A s \in 1..Len(sess) : sess[s].closes >= 1

\* C19: a start() that returns after a stop() has done what a first start()
\* does.  Until stop() is called again: since that stop() every server with
\* a valid entry was opened and listed once and no other server at all, the
\* list returned is the adapters of the servers that opened and listed, each
\* bound to the session now in the context map, a session no stop() has
\* worked on, and no tool is in it twice.
C19_Restartable ==
    \A t \in Callers :
        (Quiet /\ Returned(t) /\ stopsDone >= 1) =>
            /\ started
            /\ \A i \in Servers :
                  /\ opens[i] = (IF Valid(i) THEN 1 ELSE 0)
                  /\ lists[i] <= 1
            /\ ret[t] = ContributionsFrom(1)
            /\ \A k \in 1..Len(ret[t]) :
                  /\ Live(ret[t][k].client)
                  /\ ret[t][k].server_name \in DictKeys(contexts)
                  /\ DictGet(contexts, ret[t][k].server_name) = ret[t][k].client
            /\ \A k \in 1..Len(contexts) : Live(contexts[k].value)
            /\ \A k \in 1..Len(clients) : Live(clients[k].value)
            /\ \A k1 \in 1..Len(ret[t]), k2 \in 1..Len(ret[t]) :
                  (/\ ret[t][k1].server_name = ret[t][k2].server_name
                   /\ ret[t][k1].tool_name = ret[t][k2].tool_name) => k1 = k2

\* C19 witness: start(), stop() and start() have returned; the first pass's
\* session was closed and the second pass found adapters on a new one.
C19_Witness ==
    \E t \in Callers :
        /\ Quiet
        /\ Returned(t)
        /\ stopsDone >= 1
        /\ ret[t] # << >>
        /\ \E s \in 1..Len(sess) : sess[s].closes = 1
        /\ Live(ret[t][1].client)

\* The place of a server name in the configuration.
ServerIndex(name) == CHOOSE i \in 1..Len(ServerNames) : ServerNames[i] = name

\* The place of adapter a's tool in the listing its session returned.
ListingIndex(a) ==
    LET v == sess[a.client].listed.v
    IN  CHOOSE j \in 1..Len(v) : v[j].name = a.tool_name

\* C20: in the list a start() returned, the adapters stand in the order of
\* their servers in the configuration (so those of one server stand
\* together), and those of one server in the order of that server's
\* listing.
C20_OrderedByServer ==
    \A t \in Callers :
        Returned(t) =>
            \A k1 \in 1..Len(ret[t]), k2 \in 1..Len(ret[t]) :
                k1 < k2 =>
                    LET a1 == ret[t][k1]
                        a2 == ret[t][k2]
                    IN  /\ ServerIndex(a1.server_name) <= ServerIndex(a2.server_name)
                        /\ a1.server_name = a2.server_name =>
                              /\ a1.client = a2.client
                              /\ ListingIndex(a1) < ListingIndex(a2)

\* C20 witness: a start() returned the two adapters of the first server
\* followed by adapters of the second.
C20_Witness ==
    \E t \in Callers :
        /\ Returned(t)
        /\ Len(ret[t]) >= 3
        /\ ret[t][1].server_name = ServerNames[1] /\ ret[t][1].tool_name = <<"A">>
        /\ ret[t][2].server_name = ServerNames[1] /\ ret[t][2].tool_name = <<"B">>
        /\ ret[t][3].server_name = ServerNames[2]

\* r is the error text of a call of the tool on the server that failed with
\* msg, read off position by position.
ErrorOf(r, tool, server, msg) ==
    LET p1 == <<"E", "r", "r", "o", "r", " ", "c", "a", "l", "l", "i", "n", "g", " ", "M", "C", "P", " ", "t", "o", "o", "l", " ", "'">>
        p2 == <<"'", " ", "o", "n", " ", "s", "e", "r", "v", "e", "r", " ", "'">>
        p3 == <<"'", ":", " ">>
        n1 == Len(p1)
        n2 == n1 + Len(tool)
        n3 == n2 + Len(p2)
        n4 == n3 + Len(server)
        n5 == n4 + Len(p3)
    IN  /\ Len(r) = n5 + Len(msg)
        /\ SubSeq(r, 1, n1) = p1
        /\ SubSeq(r, n1 + 1, n2) = tool
        /\ SubSeq(r, n2 + 1, n3) = p2
        /\ SubSeq(r, n3 + 1, n4) = server
        /\ SubSeq(r, n4 + 1, n5) = p3
        /\ SubSeq(r, n5 + 1, Len(r)) = msg

\* C21: execute() calls in flight together do not touch each other: a call
\* that returns gives the text due to its own response (its blocks' strings
\* in order, the sentinel for no blocks, or the error text of its own adapter's tool and server with its
\* own failure's message); no step of a call changes an adapter or another
\* call that stays in flight.
C21_NoInterference ==
    /\ [](done.pc = "returned" =>
            IF done.response.t = "raise"
            THEN ErrorOf(done.result, pool[done.adapter].tool_name,
                         pool[done.adapter].server_name, done.response.msg)
            ELSE IF done.response.content = << >>
                 THEN done.result = Sentinel
                 ELSE Lines(done.result) =
                          [k \in 1..Len(done.response.content) |->
                              BlockString(done.response.content[k])])
    /\ [][/\ pool' = pool
          /\ \A e \in Slots :
                (calls[e].pc = "awaiting" /\ calls'[e].pc = "awaiting") =>
                    calls'[e] = calls[e]]_vars

\* C21 witness: a call on the second adapter failed and returned its error
\* text while a call on the first adapter, of another tool or server, was in
\* flight.
C21_Witness ==
    /\ done.pc = "returned"
    /\ done.response.t = "raise"
    /\ done.adapter = 2
    /\ AdapterName(pool[1]) # AdapterName(pool[2])
    /\ \E e \in Slots : calls[e].pc = "awaiting" /\ calls[e].adapter = 1

\* The tool object the k-th adapter of self._tools was made from, and the
\* name of its server.
DescriptorOf(k) == sess[tools[k].client].listed.v[1]
ServerOf(k) == ServerNames[sess[tools[k].client].server]

\* The description of the k-th adapter is the remote one when that is a
\* non-empty text, and otherwise a non-empty text holding the tool name and
\* the server name.
DescriptionPopulated(k) ==
    LET d == DescriptorOf(k).description IN
    /\ tools[k].description # << >>
    /\ IF d.t = "str" /\ d.v # << >>
       THEN tools[k].description = d.v
       ELSE /\ Contains(tools[k].description, DescriptorOf(k).name)
            /\ Contains(tools[k].description, ServerOf(k))

\* C22 as stated: the description is populated, and the parameter schema is
\* the remote schema whenever the server supplied one, and the empty object
\* schema otherwise.
C22_SchemaAsSupplied ==
    \A k \in 1..Len(tools) :
        /\ DescriptionPopulated(k)
        /\ tools[k].input_schema =
              IF DescriptorOf(k).inputSchema.t = "dict"
              THEN DescriptorOf(k).inputSchema.v
              ELSE [type |-> "object", properties |-> << >>]

\* C22: every adapter has a non-empty description, the remote one when that
\* is non-empty and otherwise one holding the tool name and the server name;
\* its parameter schema is the remote schema when the server supplied a
\* non-empty one, and the empty object schema when it supplied none, None or
\* an empty object.
C22_SurfacePopulated ==
    \A k \in 1..Len(tools) :
        /\ DescriptionPopulated(k)
        /\ tools[k].input_schema =
              IF DescriptorOf(k).inputSchema.t = "dict" /\ DescriptorOf(k).inputSchema.v # << >>
              THEN DescriptorOf(k).inputSchema.v
              ELSE [type |-> "object", properties |-> << >>]

\* C22 witness: one adapter made from a tool with an empty description and an
\* empty object as schema, another from a tool with a description and a
\* schema of its own.
C22_Witness ==
    /\ \E k \in 1..Len(tools) :
          /\ DescriptorOf(k).description = PyStr(EmptyStr)
          /\ DescriptorOf(k).inputSchema = PyDict(EmptyDict)
    /\ \E k \in 1..Len(tools) :
          /\ DescriptorOf(k).description = PyStr(<<"D">>)
          /\ DescriptorOf(k).inputSchema = PyDict(SomeSchema)

\* C23: every adapter in self._tools is bound to the session that
\* self._contexts holds under the adapter's server name, and that session has
\* not been closed; this in every state, a stop() running while a start() is
\* suspended included.
C23_AdaptersBoundToLive ==
    \A k \in 1..Len(tools) :
        /\ tools[k].server_name \in DictKeys(contexts)
        /\ DictGet(contexts, tools[k].server_name) = tools[k].client
        /\ sess[tools[k].client].closed = "no"

\* C24: a server that failed during a start() is not retried by a later
\* start(): once a start() has returned, a failed server has been built at
\* most once, opened at most once and listed at most once, and has no adapter
\* in self._tools or in any list a start() returned; a start() called then
\* returns self._tools as it is and builds, opens and lists nothing.  The
\* calls are awaited one after the other.
C24_FailedNotRetried ==
    /\ []((Quiet /\ started) =>
            \A i \in Servers :
                (config[i].enabled /\ ~Succeeded(i)) =>
                    /\ builds[i] = 1 /\ opens[i] <= 1 /\ lists[i] <= 1
                    /\ AdaptersFor(tools, i) = {}
                    /\ \A t \in Callers : Returned(t) => AdaptersFor(ret[t], i) = {})
    /\ [][(Quiet /\ started /\ Quiet' /\ stopsDone' = stopsDone) =>
            /\ builds' = builds /\ opens' = opens /\ lists' = lists
            /\ sess' = sess /\ clients' = clients /\ contexts' = contexts
            /\ tools' = tools /\ started'
            /\ \A t \in Callers :
                  (pc'[t] = "idle" /\ outcome'[t] = "returned") => ret'[t] = tools]_vars

\* C24 witness: two start() calls have returned one after the other and a
\* server whose entry is valid, opened once, is not connected.
C24_Witness ==
    /\ Quiet /\ started
    /\ \A t \in Callers : Returned(t)
    /\ \E i \in Servers : Valid(i) /\ ~Succeeded(i) /\ opens[i] = 1

====
